---- MODULE Spec2Model ----
(***************************************************************************)
(* A model of the deno-script task runner: run()/runTasks (mod.ts) and     *)
(* exec()/_exec (exec.ts).                                                 *)
(*                                                                         *)
(* Strings are sequences of segments: a task name is a sequence of letter  *)
(* runs and the separator characters "-" and "_"; a path is a sequence of  *)
(* directory names; a command text is a sequence of words and " ".         *)
(***************************************************************************)
EXTENDS Integers, Sequences, FiniteSets, TLC

\* ------------------------------------------------------------------ bounds
\* the longest batch of positional task names on the command line
MaxTasks == 2
\* the longest command sequence handed to exec()
MaxCmds == 3
\* loggers in the tree, the root among them
MaxLoggers == 4
\* calls of exec() the tasks of one run make
MaxExecs == 1

\* ------------------------------------------------------------ task names
Dash == "-"
Underscore == "_"

\* the names a user may type on the command line
NameABC == <<"a", "-", "b", "-", "c">>
NameAB == <<"a", "-", "b">>
NameHelp == <<"_", "help">>
NameZZ == <<"zz">>
RequestNames == {NameABC, NameAB, NameHelp, NameZZ}

\* keys a build script may register
KeyABC == <<"a", "_", "b", "_", "c">>
KeyAB == <<"a", "_", "b">>
TaskPrefix == <<"task", "_">>
KeyTaskAB == TaskPrefix \o KeyAB
KeyHelp == <<"_", "help">>
KeyCacheClear == <<"_", "cache", "_", "clear">>
UserKeys == {KeyABC, KeyAB, KeyTaskAB, KeyHelp}

\* the registry newBuiltinsTasks builds
BuiltinKeys == {KeyCacheClear, KeyHelp}

NoTask == [reg |-> "none", key |-> <<>>]

\* String.prototype.replace with a string pattern: the first occurrence only
RECURSIVE ReplaceFirst(_, _, _)
ReplaceFirst(s, from, to) ==
    IF s = <<>> THEN <<>>
    ELSE IF Head(s) = from THEN <<to>> \o Tail(s)
    ELSE <<Head(s)>> \o ReplaceFirst(Tail(s), from, to)

\* tasksToRun[i].replace('-', '_')
TaskName(requested) == ReplaceFirst(requested, Dash, Underscore)

\* the builtins looked up before the user tasks
LookupTaskBuiltinFirst(userTasks, builtins, taskName) ==
    IF taskName \in builtins THEN [reg |-> "builtin", key |-> taskName]
    ELSE IF taskName \in userTasks THEN [reg |-> "user", key |-> taskName]
    ELSE IF (TaskPrefix \o taskName) \in userTasks
         THEN [reg |-> "user", key |-> TaskPrefix \o taskName]
    ELSE NoTask

\* the three lookups of runTasks, each tried only when the one before gave nothing
LookupTask(userTasks, builtins, taskName) ==
    IF taskName \in userTasks THEN [reg |-> "user", key |-> taskName]
    ELSE IF (TaskPrefix \o taskName) \in userTasks
         THEN [reg |-> "user", key |-> TaskPrefix \o taskName]
    ELSE IF taskName \in builtins THEN [reg |-> "builtin", key |-> taskName]
    ELSE NoTask

\* ------------------------------------------------------------------ paths
HomeDir == <<"home">>
ProjDir == <<"proj">>
BuildDir == <<"proj", "build">>
TmpDir == <<"tmp">>
\* the directories that exist; chdir into anything else fails
ExistingDirs == {<<>>, HomeDir, ProjDir, BuildDir, TmpDir, <<"home", "build">>,
                 <<"home", "build", "build">>}

NoDir == <<>>
\* relative directories a script may configure; "nodir" does not exist
RunDirs == {NoDir, <<"build">>, <<"nodir">>}

\* path.dirname(new URL(opts.meta.url).pathname): the calling script lives in /proj
EntryScriptDir == ProjDir

\* path.join(entryScriptDir, runDir)
BaseDir(runDir) == EntryScriptDir \o runDir

\* Deno.chdir succeeds exactly on an existing directory
CanChdir(dir) == dir \in ExistingDirs

\* ------------------------------------------------------------------ state
VARIABLES
    \* run(): inputs
    opts,        \* RunOpts: dir, default, meta (tasks is userTasks)
    userTasks,   \* the keys of opts.tasks
    cliTasks,    \* taskArgs['_']: positional names
    cliHelp,     \* taskArgs['help']
    \* run(): locals and effects
    pc,          \* position of run()/runTasks
    tasks,       \* tasksToRun
    i,           \* loop index of runTasks (1-based)
    initCwd,     \* const initCwd
    cwd,         \* the process working directory
    cwd0,        \* the working directory immediately before run() was invoked
    resolved,    \* per dispatched position, what the lookup gave
    invoked,     \* the task invocations made, in order
    taskState,   \* per position: none, pending, resolved, rejected, threw, plain
    taskErr,     \* per position: the error the task failed with
    runLog,      \* calls of log.error made by mod.ts
    thrown,      \* what run() raised to its caller
    \* the rest of the command line
    cliLog,      \* taskArgs.log: the value of --log, or None
    cliFlags,    \* the level flags given: --error, --warn, --info, --debug, --trace
    cliExtra,    \* flags the runner does not know, as name/value pairs
    \* objects
    loggers,     \* the logger objects: parent and _level (0 is null); 1 is the root
    objects      \* argument objects: 0 is taskArgs of run(), k the args of context k

cliVars == <<cliLog, cliFlags, cliExtra>>

runVarsButCwd == <<opts, userTasks, cliTasks, cliHelp, pc, tasks, i, initCwd, cwd0,
                   resolved, invoked, taskState, taskErr, runLog, thrown,
                   cliLog, cliFlags, cliExtra, loggers, objects>>

VARIABLES
    calls,     \* per exec() call: its options, position and locals
    running,   \* the call whose code is on the stack: {e}, or {} between awaits
    procs,     \* the subprocesses started, in order
    live,      \* the subprocesses that have not exited
    console,   \* what exec() wrote with console.log
    execLog,   \* calls of log.error made by exec.ts
    ambientEnv, \* the environment variables of the calling process
    taskExecs  \* the exec() calls tasks made: call, task index, awaited by the task,
               \* and the calls in progress when it was made

execVars == <<calls, running, procs, live, console, execLog, ambientEnv>>

None == "none"
\* run() has raised nothing
NoFailure == [kind |-> "none", task |-> <<>>]

\* errors a user task may fail with
TaskErrors == {"E1", "E2"}
\* calling .catch on what a non-async task returned
TypeErrorNoCatch == "TypeError: catch is not a function"

\* ------------------------------------------------------- logger.ts levels
TRACE == 1
DEBUG == 2
INFO == 3
WARN == 4
ERROR == 5
FATAL == 6
OFF == 7
\* _level of a logger that has no level of its own
NullLevel == 0

\* nameToLevel
LevelNames == {"trace", "debug", "info", "warn", "error", "fatal", "off"}
NameToLevel(name) ==
    CASE name = "trace" -> TRACE
      [] name = "debug" -> DEBUG
      [] name = "info" -> INFO
      [] name = "warn" -> WARN
      [] name = "error" -> ERROR
      [] name = "fatal" -> FATAL
      [] name = "off" -> OFF

\* parseLevel(levelName): an unknown name gives the default, INFO
ParseLevel(name) == IF name \in LevelNames THEN NameToLevel(name) ELSE INFO

\* the root logger of LoggerFactory: no parent, DEFAULT_LEVEL
RootLogger == [parent |-> 0, level |-> INFO]

\* loggerFactory.level = name: the setter of the root logger parses the name
SetRootLevel(ls, name) == [ls EXCEPT ![1].level = ParseLevel(name)]

\* the level of the root logger
RootLevel(ls) == ls[1].level

\* the order in which init() looks at the level flags
LevelFlagOrder == <<"error", "warn", "info", "debug", "trace">>

\* init(): each level flag present sets the level in turn, then --log
RECURSIVE ApplyLevelFlags(_, _, _)
ApplyLevelFlags(ls, order, flags) ==
    IF order = <<>> THEN ls
    ELSE ApplyLevelFlags(IF Head(order) \in flags THEN SetRootLevel(ls, Head(order)) ELSE ls,
                         Tail(order), flags)

\* mod.ts as loaded: loggerFactory.level = 'info', then init()
LoadedLoggers(flags, log) ==
    LET afterFlags == ApplyLevelFlags(SetRootLevel(<<RootLogger>>, "info"),
                                      LevelFlagOrder, flags) IN
    IF log # None THEN SetRootLevel(afterFlags, log) ELSE afterFlags

\* run(): if (!taskArgs.log && opts.logLevel) loggerFactory.level = opts.logLevel
RunLoggers(ls, o, log) ==
    IF log = None /\ o.logLevel # None THEN SetRootLevel(ls, o.logLevel) ELSE ls

\* parse(Deno.args): the flags as name/value pairs, '_' standing for the positional list
ParseArgs(help, log, flags, extra) ==
    {<<"_", "positional">>}
        \cup (IF help THEN {<<"help", "true">>} ELSE {})
        \cup (IF log # None THEN {<<"log", log>>} ELSE {})
        \cup {<<f, "true">> : f \in flags}
        \cup extra

\* delete taskArgs['_']
DeleteKey(args, key) == {kv \in args : kv[1] # key}

\* the command line of the runs that look at dispatch only: no level flag, no --log
CliPlain ==
    /\ cliLog = None
    /\ cliFlags = {}
    /\ cliExtra = {}

BatchesUpTo(n) == UNION {[1..m -> RequestNames] : m \in 0..n}

\* opts.default || '_help'
DefaultTaskName(o) == IF o.default = None THEN NameHelp ELSE o.default

\* a task list in which --help only counts when no task is named
TaskListHelpLast(o, positional, help) ==
    IF Len(positional) # 0 THEN positional
    ELSE IF help THEN <<NameHelp>>
    ELSE <<DefaultTaskName(o)>>

\* lines 121-129 of run(): the task list
TaskList(o, positional, help) ==
    IF help THEN <<NameHelp>>
    ELSE IF Len(positional) = 0 THEN <<DefaultTaskName(o)>>
    ELSE positional

RunInit ==
    /\ opts \in [dir : RunDirs, default : {None, NameAB}, meta : BOOLEAN, logLevel : {None}]
    /\ CliPlain
    /\ loggers = LoadedLoggers(cliFlags, cliLog)
    /\ objects = <<>>
    /\ userTasks \in SUBSET UserKeys
    /\ cliTasks \in BatchesUpTo(MaxTasks)
    /\ cliHelp \in BOOLEAN
    /\ pc = "start"
    /\ tasks = <<>>
    /\ i = 0
    /\ initCwd = <<"unset">>
    /\ cwd \in {HomeDir, TmpDir}
    /\ cwd0 = cwd
    /\ resolved = <<>>
    /\ invoked = <<>>
    /\ taskState = <<>>
    /\ taskErr = <<>>
    /\ runLog = <<>>
    /\ thrown = NoFailure

\* ------------------------------------------------------------ run(), mod.ts
\* log.error(`could not find task function '${taskName}'...`)
NotFoundEvent(taskName) == [event |-> "task-not-found", task |-> taskName, err |-> None]
\* log.error(`Task '${taskName}' threw an error`, err)
TaskThrewEvent(taskName, err) == [event |-> "task-threw", task |-> taskName, err |-> err]
\* throw `Task '${taskName} threw an error`
TaskFailure(taskName) == [kind |-> "task-failed", task |-> taskName]
\* throw `No 'meta' (import.meta.url) set on RunArgs...`
NoMetaFailure == [kind |-> "no-meta", task |-> <<>>]
\* Deno.chdir(baseDir) raising out of setWorkingDir
BaseDirFailure == [kind |-> "chdir-failed", task |-> <<>>]

\* a setWorkingDir that does not ask for meta
SetWorkingDirErrorNoMetaCheck(o) ==
    IF o.dir = NoDir THEN NoFailure
    ELSE IF CanChdir(BaseDir(o.dir)) THEN NoFailure
    ELSE BaseDirFailure

\* setWorkingDir(opts): the failure it raises, or NoFailure
SetWorkingDirError(o) ==
    IF ~o.meta THEN NoMetaFailure
    ELSE IF o.dir = NoDir THEN NoFailure
    ELSE IF CanChdir(BaseDir(o.dir)) THEN NoFailure
    ELSE BaseDirFailure

\* setWorkingDir(opts): the working directory it leaves
SetWorkingDirCwd(o, current) ==
    IF o.meta /\ o.dir # NoDir /\ CanChdir(BaseDir(o.dir)) THEN BaseDir(o.dir)
    ELSE current

\* a run() that leaves the working directory where the tasks left it
RestoreCwdMissing(saved, current) == current

\* finally { Deno.chdir(initCwd) }
RestoreCwd(saved, current) == saved

\* a loop that does not wait for the task
SettledNoAwait(state) == TRUE

\* `await task(taskContext)`: the loop goes on only once the promise has settled
Settled(state) == state # "pending"

\* the lookup of the name at loop index k
ResolveAt(k) == LookupTask(userTasks, BuiltinKeys, TaskName(tasks[k]))

\* how a task may behave when called: user tasks are arbitrary functions, the
\* builtins are async functions and always return a promise
ShapesOf(task) ==
    IF task.reg = "builtin" THEN {"promise"} ELSE {"promise", "throws", "plain"}

\* how a pending task may settle: the builtin help task only prints
SettlementsOf(task) ==
    IF task.reg = "builtin" /\ task.key = KeyHelp THEN {"resolved"}
    ELSE {"resolved", "rejected"}

\* run() up to the call of runTasks: task list, initCwd, setWorkingDir
RunCall ==
    /\ running = {}
    /\ pc = "start"
    /\ initCwd' = cwd
    /\ loggers' = RunLoggers(loggers, opts, cliLog)
    /\ tasks' = TaskList(opts, cliTasks, cliHelp)
    /\ objects' = [r \in {0} |->
                      DeleteKey(ParseArgs(cliHelp, cliLog, cliFlags, cliExtra), "_")]
    /\ taskState' = [k \in 1..Len(tasks') |-> None]
    /\ taskErr' = [k \in 1..Len(tasks') |-> None]
    /\ IF SetWorkingDirError(opts) # NoFailure
       THEN /\ thrown' = SetWorkingDirError(opts)
            /\ pc' = "failed"
            /\ UNCHANGED <<cwd, i>>
       ELSE /\ cwd' = SetWorkingDirCwd(opts, cwd)
            /\ pc' = "loop"
            /\ i' = 1
            /\ UNCHANGED thrown
    /\ UNCHANGED <<opts, userTasks, cliTasks, cliHelp, cwd0, resolved, invoked, runLog>>
    /\ UNCHANGED <<cliVars>>
    /\ UNCHANGED <<execVars, taskExecs>>

\* the loop condition fails: runTasks returns
BatchDone ==
    /\ running = {}
    /\ pc = "loop"
    /\ i > Len(tasks)
    /\ pc' = "finally"
    /\ UNCHANGED <<opts, userTasks, cliTasks, cliHelp, tasks, i, initCwd, cwd, cwd0,
                   resolved, invoked, taskState, taskErr, runLog, thrown>>
    /\ UNCHANGED <<cliVars, loggers, objects>>
    /\ UNCHANGED <<execVars, taskExecs>>

\* a loop that logs the missing task and goes on with the next name
TaskNotFoundContinue ==
    /\ running = {}
    /\ pc = "loop"
    /\ i <= Len(tasks)
    /\ LookupTask(userTasks, BuiltinKeys, TaskName(tasks[i])) = NoTask
    /\ resolved' = Append(resolved, NoTask)
    /\ runLog' = Append(runLog, NotFoundEvent(TaskName(tasks[i])))
    /\ i' = i + 1
    /\ UNCHANGED <<opts, userTasks, cliTasks, cliHelp, pc, tasks, initCwd, cwd, cwd0,
                   invoked, taskState, taskErr, thrown>>
    /\ UNCHANGED <<cliVars, loggers, objects>>
    /\ UNCHANGED <<execVars, taskExecs>>

\* no lookup matched: log.error and return
TaskNotFound ==
    /\ running = {}
    /\ pc = "loop"
    /\ i <= Len(tasks)
    /\ ResolveAt(i) = NoTask
    /\ resolved' = Append(resolved, NoTask)
    /\ runLog' = Append(runLog, NotFoundEvent(TaskName(tasks[i])))
    /\ pc' = "finally"
    /\ UNCHANGED <<opts, userTasks, cliTasks, cliHelp, tasks, i, initCwd, cwd, cwd0,
                   invoked, taskState, taskErr, thrown>>
    /\ UNCHANGED <<cliVars, loggers, objects>>
    /\ UNCHANGED <<execVars, taskExecs>>

\* a catch block that logs the failure and lets runTasks return
CatchTaskSwallow(k, err) ==
    /\ runLog' = Append(runLog, TaskThrewEvent(TaskName(tasks[k]), err))
    /\ UNCHANGED thrown
    /\ pc' = "finally"

\* the catch block of runTasks: log the task with its error and raise a new one
CatchTask(k, err) ==
    /\ runLog' = Append(runLog, TaskThrewEvent(TaskName(tasks[k]), err))
    /\ thrown' = TaskFailure(TaskName(tasks[k]))
    /\ pc' = "finally"

\* a context that is handed the taskArgs object of run() itself
ContextArgsShared(k) == 0

\* args: { ...taskArgs }: the context of the task at index k gets an object of its own
ContextArgs(k) == k

\* the object `to` becomes a copy of the entries of the object `from`
CopyArgs(objs, to, from) == [r \in DOMAIN objs \cup {to} |-> IF r = to THEN objs[from] ELSE objs[r]]

\* the task is found and called with a fresh context
TaskInvoke ==
    /\ running = {}
    /\ pc = "loop"
    /\ i <= Len(tasks)
    /\ ResolveAt(i) # NoTask
    /\ resolved' = Append(resolved, ResolveAt(i))
    /\ objects' = CopyArgs(objects, ContextArgs(i), 0)
    /\ invoked' = Append(invoked, [pos |-> i, task |-> ResolveAt(i),
                                    args |-> objects'[ContextArgs(i)]])
    /\ \E shape \in ShapesOf(ResolveAt(i)) :
          \/ /\ shape = "promise"
             /\ taskState' = [taskState EXCEPT ![i] = "pending"]
             /\ pc' = "await"
             /\ UNCHANGED <<taskErr, runLog, thrown>>
          \/ /\ shape = "throws"
             /\ \E e \in TaskErrors :
                   /\ taskState' = [taskState EXCEPT ![i] = "threw"]
                   /\ taskErr' = [taskErr EXCEPT ![i] = e]
                   /\ CatchTask(i, e)
          \/ /\ shape = "plain"
             /\ taskState' = [taskState EXCEPT ![i] = "plain"]
             /\ taskErr' = [taskErr EXCEPT ![i] = TypeErrorNoCatch]
             /\ CatchTask(i, TypeErrorNoCatch)
    /\ UNCHANGED <<opts, userTasks, cliTasks, cliHelp, tasks, i, initCwd, cwd, cwd0>>
    /\ UNCHANGED <<cliVars, loggers>>
    /\ UNCHANGED <<execVars, taskExecs>>

\* a task in progress changes the working directory
TaskChdir ==
    /\ running = {}
    /\ \E k \in DOMAIN taskState : taskState[k] = "pending"
    /\ \E d \in {BuildDir, TmpDir} : d # cwd /\ cwd' = d
    /\ UNCHANGED <<opts, userTasks, cliTasks, cliHelp, pc, tasks, i, initCwd, cwd0,
                   resolved, invoked, taskState, taskErr, runLog, thrown>>
    /\ UNCHANGED <<cliVars, loggers, objects>>
    /\ UNCHANGED <<execVars, taskExecs>>

\* the exec() calls the task at index k awaits have all returned or raised
AwaitsNoExec(k) ==
    \A t \in taskExecs :
        (t.task = k /\ t.awaited) => calls[t.call].pc \in {"returned", "raised"}

\* the promise a task returned settles
TaskSettle ==
    /\ running = {}
    /\ \E k \in DOMAIN taskState :
          /\ taskState[k] = "pending"
          /\ AwaitsNoExec(k)
          /\ \E how \in SettlementsOf(resolved[k]) :
                \/ /\ how = "resolved"
                   /\ taskState' = [taskState EXCEPT ![k] = "resolved"]
                   /\ UNCHANGED taskErr
                \/ /\ how = "rejected"
                   /\ \E e \in TaskErrors :
                         /\ taskState' = [taskState EXCEPT ![k] = "rejected"]
                         /\ taskErr' = [taskErr EXCEPT ![k] = e]
    /\ UNCHANGED <<opts, userTasks, cliTasks, cliHelp, pc, tasks, i, initCwd, cwd, cwd0,
                   resolved, invoked, runLog, thrown>>
    /\ UNCHANGED <<cliVars, loggers, objects>>
    /\ UNCHANGED <<execVars, taskExecs>>

\* runTasks resumes after the await: next iteration, or the catch block
TaskResume ==
    /\ running = {}
    /\ pc = "await"
    /\ Settled(taskState[i])
    /\ IF taskState[i] = "rejected"
       THEN /\ CatchTask(i, taskErr[i])
            /\ UNCHANGED i
       ELSE /\ pc' = "loop"
            /\ i' = i + 1
            /\ UNCHANGED <<runLog, thrown>>
    /\ UNCHANGED <<opts, userTasks, cliTasks, cliHelp, tasks, initCwd, cwd, cwd0,
                   resolved, invoked, taskState, taskErr>>
    /\ UNCHANGED <<cliVars, loggers, objects>>
    /\ UNCHANGED <<execVars, taskExecs>>

\* finally { Deno.chdir(initCwd) }, then run() returns or raises
RunFinally ==
    /\ running = {}
    /\ pc = "finally"
    /\ cwd' = RestoreCwd(initCwd, cwd)
    /\ pc' = IF thrown = NoFailure THEN "done" ELSE "failed"
    /\ UNCHANGED <<opts, userTasks, cliTasks, cliHelp, tasks, i, initCwd, cwd0,
                   resolved, invoked, taskState, taskErr, runLog, thrown>>
    /\ UNCHANGED <<cliVars, loggers, objects>>
    /\ UNCHANGED <<execVars, taskExecs>>

\* what a task does to the args of its context, at the top level
ArgsMutations == {"add", "delete", "assign"}
MutateArgs(args, how) ==
    CASE how = "add" -> args \cup {<<"added", "1">>}
      [] how = "delete" -> DeleteKey(args, "foo")
      [] how = "assign" -> DeleteKey(args, "foo") \cup {<<"foo", "2">>}

\* a task that is in progress changes context.args
TaskMutateArgs ==
    /\ running = {}
    /\ pc = "await"
    /\ \E k \in DOMAIN taskState, how \in ArgsMutations :
          /\ taskState[k] = "pending"
          /\ objects' = [objects EXCEPT ![ContextArgs(k)] = MutateArgs(@, how)]
    /\ UNCHANGED <<opts, userTasks, cliTasks, cliHelp, pc, tasks, i, initCwd, cwd, cwd0,
                   resolved, invoked, taskState, taskErr, runLog, thrown>>
    /\ UNCHANGED <<cliVars, loggers>>
    /\ UNCHANGED <<execVars, taskExecs>>

Next ==
    \/ RunCall
    \/ BatchDone
    \/ TaskNotFound
    \/ TaskInvoke
    \/ TaskChdir
    \/ TaskSettle
    \/ TaskResume
    \/ RunFinally

\* ---------------------------------------------------------- exec(), exec.ts
\* command texts: words separated by " "
CmdEcho == <<"echo", " ", "hello">>
CmdA == <<"A">>
\* a command whose binary does not exist: Deno.run raises
CmdMissing == <<"nosuch">>
Commands == {CmdEcho, CmdA, CmdMissing}

\* the 'dir' overrides of a call, relative to the working directory
ExecDirs == {NoDir, <<"build">>, <<"nodir">>}
\* an optional boolean option
Flags == {"unset", "true", "false"}

\* the ways a subprocess may end: exit code and what it wrote to stderr
ProcExits == {[code |-> 0, stderr |-> ""], [code |-> 1, stderr |-> "boom"],
              [code |-> 2, stderr |-> "oops"]}

StringCmd(c) == [kind |-> "string", list |-> <<c>>]
ArrayCmd(cs) == [kind |-> "array", list |-> cs]
FunctionCmd == [kind |-> "function", list |-> <<>>]
CmdSpecs ==
    {StringCmd(c) : c \in Commands}
        \cup {ArrayCmd(cs) : cs \in UNION {[1..n -> Commands] : n \in 0..MaxCmds}}
        \cup {FunctionCmd}

\* environment variables as name/value pairs; no 'env' option is the empty mapping
NoEnv == {}
EnvMaps == {NoEnv, {<<"FOO", "1">>}}
\* the environment of the calling process
AmbientEnv == {<<"HOME", "/home">>}

ExecOpts == [cmd : CmdSpecs, dir : ExecDirs, silent : Flags, logError : Flags, env : EnvMaps]

\* _exec({ cmd: c }): the options exec() hands to _exec for one command
ExecArg(o, c) == [cmd |-> c, env |-> NoEnv]

\* o.env = opts.env: the 'env' _exec hands to Deno.run
RunEnv(arg) == arg.env

\* Deno.run: the child gets the parent's environment with 'env' added
ProcessEnv(ambient, passed) == ambient \cup passed

\* Array.prototype.join
RECURSIVE Join(_, _)
Join(parts, sep) ==
    IF parts = <<>> THEN <<>>
    ELSE IF Len(parts) = 1 THEN Head(parts)
    ELSE Head(parts) \o sep \o Join(Tail(parts), sep)

\* String.prototype.split(' '): the words between the spaces
RECURSIVE SplitWords(_, _)
SplitWords(text, word) ==
    IF text = <<>> THEN <<word>>
    ELSE IF Head(text) = " " THEN <<word>> \o SplitWords(Tail(text), <<>>)
    ELSE SplitWords(Tail(text), word \o <<Head(text)>>)

\* opts.cmd.split(' ') in _exec
Argv(c) == SplitWords(c, <<>>)

\* Deno.run finds the binary
CanSpawn(argv) == argv[1] # CmdMissing

\* what the process writes to stdout
ProcStdout(argv) ==
    IF argv[1] = <<"echo">> THEN Join(Tail(argv), <<" ">>) \o <<"\n">>
    ELSE <<"out of ">> \o argv[1] \o <<"\n">>

\* a decoding that drops a final newline
RECURSIVE DecodeTrimmed(_)
DecodeTrimmed(bytes) ==
    IF bytes # <<>> /\ bytes[Len(bytes)] = "\n"
    THEN DecodeTrimmed(SubSeq(bytes, 1, Len(bytes) - 1))
    ELSE bytes

\* decoder.decode(await stdOut): the bytes as they are
Decode(bytes) == bytes

\* `${opts.cmd}`: a string as it is, an array joined by ",", a function's source
CmdToString(cmd) ==
    IF cmd.kind = "function" THEN <<"() => {...}">>
    ELSE Join(cmd.list, <<",">>)

\* JSON.stringify of a command list entry
JsonString(text) == <<"\"">> \o text \o <<"\"">>

\* JSON.stringify(opts): functions and undefined members are left out
JsonOpts(o) ==
    <<"{">>
      \o (IF o.cmd.kind = "string" THEN <<"cmd:">> \o JsonString(o.cmd.list[1])
          ELSE IF o.cmd.kind = "array"
               THEN <<"cmd:[">>
                     \o Join([k \in 1..Len(o.cmd.list) |-> JsonString(o.cmd.list[k])], <<",">>)
                     \o <<"]">>
          ELSE <<>>)
      \o (IF o.dir # NoDir THEN <<"dir:">> \o JsonString(o.dir) ELSE <<>>)
      \o (IF o.silent # "unset" THEN <<"silent:", o.silent>> ELSE <<>>)
      \o (IF o.logError # "unset" THEN <<"logError:", o.logError>> ELSE <<>>)
      \o (IF o.env # NoEnv THEN <<"env:{...}">> ELSE <<>>)
      \o <<"}">>

\* JSON.stringify(err): an Error has no enumerable own property
JsonError(err) ==
    IF err.type = "Error" THEN <<"{", "}">> ELSE JsonString(err.message)

\* new Error(`error while running '${opts.cmd}', status code '${status.code}', error '${errOutput}'`)
ProcError(c, exit) ==
    [type |-> "Error",
     message |-> <<"error while running '">> \o c \o <<"', status code '", ToString(exit.code),
                   "', error '", exit.stderr, "'">>]
\* Deno.run raising NotFound
SpawnError(c) == [type |-> "Error", message |-> <<"NotFound: ">> \o c]
\* the error of Deno.chdir let through as it is
DirChangeErrorRaw(o) ==
    [type |-> "Error", message |-> <<"NotFound: No such file or directory (os error 2)">>]

\* Error(`Error changing working dir. Dir='${opts.dir}', cmd='${opts.cmd}', err=${err}`)
DirChangeError(o) ==
    [type |-> "Error",
     message |-> <<"Error changing working dir. Dir='">> \o o.dir \o <<"', cmd='">>
                   \o CmdToString(o.cmd) \o <<"', err=NotFound">>]
\* Error(`Error executing ${JSON.stringify(opts)}, error ${JSON.stringify(err)}`)
WrappedError(o, err) ==
    [type |-> "Error",
     message |-> <<"Error executing ">> \o JsonOpts(o) \o <<", error ">> \o JsonError(err)]
\* what a function command may throw or reject with
FnError(e) == [type |-> "string", message |-> <<e>>]
\* .catch called on what a non-async function returned
FnTypeError == [type |-> "Error", message |-> <<TypeErrorNoCatch>>]
NoError == [type |-> "none", message |-> <<>>]

\* Deno.chdir(opts.dir): a relative directory is taken from the working directory
ResolveDir(current, dir) == current \o dir

\* an echo that is skipped only when silent is true
EchoesUnlessSilent(silent) == silent # "true"

\* if (opts.silent == false): the output is written to the console
Echoes(silent) == silent = "false"

\* a catch block that logs only when logError is true
LogsErrorWhenTrue(logError) == logError = "true"

\* if (opts.logError != false): the failure is logged
LogsError(logError) == logError # "false"

\* an exec() that does not change back
ExecFinallyCwdMissing(o, cwdOrginal, current) == current

\* finally { if (opts.dir) Deno.chdir(cwdOrginal) }
ExecFinallyCwd(o, cwdOrginal, current) == IF o.dir # NoDir THEN cwdOrginal ELSE current

\* the loop of exec() over a command sequence goes on after a command exited 0
NextIndex(idx) == idx + 1

vars == <<opts, userTasks, cliTasks, cliHelp, pc, tasks, i, initCwd, cwd, cwd0,
          resolved, invoked, taskState, taskErr, runLog, thrown,
          cliLog, cliFlags, cliExtra, loggers, objects,
          calls, running, procs, live, console, execLog, ambientEnv, taskExecs>>

IdleCall ==
    [pc |-> "idle", opts |-> [cmd |-> FunctionCmd, dir |-> NoDir, silent |-> "unset",
                              logError |-> "unset", env |-> NoEnv],
     fnCalls |-> 0, fnOutcome |-> None,
     cwdOrginal |-> <<>>, idx |-> 0, out |-> <<>>, err |-> NoError,
     result |-> <<>>, raised |-> NoError, cwdBefore |-> <<>>, cwdAfter |-> <<>>,
     fails |-> <<>>, exit |-> [code |-> 0, stderr |-> ""]]

ExecInit ==
    /\ calls = [e \in {1} |-> IdleCall]
    /\ running = {}
    /\ procs = <<>>
    /\ live = {}
    /\ console = <<>>
    /\ execLog = <<>>
    /\ ambientEnv = AmbientEnv
    /\ taskExecs = {}

\* exec() is called by a script outside run(), or by the task run() is awaiting
CanCallExec ==
    \/ pc = "outside"
    \/ pc = "await" /\ taskState[i] = "pending"

\* what tasks call exec() with
TaskExecOpts ==
    [cmd : {StringCmd(CmdA), FunctionCmd}, dir : {NoDir, <<"build">>}, silent : {"unset"},
     logError : {"unset"}, env : {NoEnv}]

\* the options a call may be made with
ExecInputs == IF pc = "outside" THEN ExecOpts ELSE TaskExecOpts

\* the calls of exec() that have started and neither returned nor raised
InProgress == {c \in DOMAIN calls : calls[c].pc \notin {"idle", "returned", "raised"}}

\* the calls tasks made, with this call when a task makes it: the task either
\* awaits the promise of exec() before it settles its own, or lets it float
CalledBy(e, awaited) ==
    IF pc = "outside" THEN taskExecs
    ELSE taskExecs \cup {[call |-> e, task |-> i, awaited |-> awaited,
                           during |-> InProgress]}

\* exec() from its first line to the try block
ExecCall(e) ==
    /\ calls[e].pc = "idle"
    /\ running = {}
    /\ CanCallExec
    /\ \E o \in ExecInputs :
          IF o.dir # NoDir /\ ~CanChdir(ResolveDir(cwd, o.dir))
          THEN /\ calls' = [calls EXCEPT ![e] =
                     [@ EXCEPT !.pc = "raised", !.opts = o, !.cwdOrginal = cwd,
                               !.cwdBefore = cwd, !.cwdAfter = cwd,
                               !.raised = DirChangeError(o)]]
               /\ UNCHANGED <<cwd, running>>
          ELSE /\ calls' = [calls EXCEPT ![e] =
                     [@ EXCEPT !.pc = "try", !.opts = o, !.cwdOrginal = cwd,
                               !.cwdBefore = cwd, !.idx = 1]]
               /\ cwd' = IF o.dir # NoDir THEN ResolveDir(cwd, o.dir) ELSE cwd
               /\ running' = {e}
    /\ \E awaited \in BOOLEAN : taskExecs' = CalledBy(e, awaited)
    /\ UNCHANGED <<procs, live, console, execLog>>
    /\ UNCHANGED <<ambientEnv, runVarsButCwd>>

\* the command exec() is at
CurrentCmd(c) == c.opts.cmd.list[c.idx]

\* _exec up to its first await: Deno.run starts the process, or raises
ExecSpawn(e) ==
    /\ calls[e].pc = "try"
    /\ running = {e}
    /\ calls[e].opts.cmd.kind \in {"string", "array"}
    /\ calls[e].idx <= Len(calls[e].opts.cmd.list)
    /\ LET c == CurrentCmd(calls[e]) IN
          IF CanSpawn(Argv(c))
          THEN /\ procs' = Append(procs, [call |-> e, idx |-> calls[e].idx, argv |-> Argv(c),
                                       env |-> ProcessEnv(ambientEnv,
                                                  RunEnv(ExecArg(calls[e].opts, c)))])
               /\ live' = live \cup {Len(procs) + 1}
               /\ calls' = [calls EXCEPT ![e].pc = "proc"]
               /\ running' = {}
          ELSE /\ calls' = [calls EXCEPT ![e].pc = "catch", ![e].err = SpawnError(c),
                                         ![e].fails = Append(@, calls[e].idx)]
               /\ UNCHANGED <<procs, live, running>>
    /\ UNCHANGED <<cwd, console, execLog>>
    /\ UNCHANGED <<ambientEnv, taskExecs, runVarsButCwd>>

\* an _exec that does not look at the exit status
ExecProcExitIgnoresStatus(e) ==
    /\ calls[e].pc = "proc"
    /\ running = {}
    /\ \E p \in live, exit \in ProcExits :
          /\ procs[p].call = e
          /\ live' = live \ {p}
          /\ calls' = [calls EXCEPT
                  ![e].out = Append(@, Decode(ProcStdout(procs[p].argv))),
                  ![e].fails = IF exit.code = 0 THEN @ ELSE Append(@, calls[e].idx),
                  ![e].idx = NextIndex(@),
                  ![e].pc = "try"]
    /\ running' = {e}
    /\ UNCHANGED <<cwd, procs, console, execLog>>
    /\ UNCHANGED <<ambientEnv, taskExecs, runVarsButCwd>>

\* the process exits and _exec resumes: its output, or an error on a non-zero status
ExecProcExit(e) ==
    /\ calls[e].pc = "proc"
    /\ running = {}
    /\ \E p \in live, exit \in ProcExits :
          /\ procs[p].call = e
          /\ live' = live \ {p}
          /\ IF exit.code = 0
             THEN calls' = [calls EXCEPT
                     ![e].out = Append(@, Decode(ProcStdout(procs[p].argv))),
                     ![e].idx = NextIndex(@),
                     ![e].pc = "try"]
             ELSE calls' = [calls EXCEPT
                     ![e].err = ProcError(CurrentCmd(calls[e]), exit),
                     ![e].fails = Append(@, calls[e].idx),
                     ![e].exit = exit,
                     ![e].pc = "catch"]
    /\ running' = {e}
    /\ UNCHANGED <<cwd, procs, console, execLog>>
    /\ UNCHANGED <<ambientEnv, taskExecs, runVarsButCwd>>

\* every command exited 0: echo, return the joined output, restore the directory
ExecReturn(e) ==
    /\ calls[e].pc = "try"
    /\ running = {e}
    /\ calls[e].opts.cmd.kind \in {"string", "array"}
    /\ calls[e].idx > Len(calls[e].opts.cmd.list)
    /\ LET text == Join(calls[e].out, <<"\n">>)
           back == ExecFinallyCwd(calls[e].opts, calls[e].cwdOrginal, cwd) IN
          /\ console' = IF Echoes(calls[e].opts.silent)
                        THEN Append(console, [call |-> e, text |-> text])
                        ELSE console
          /\ cwd' = back
          /\ calls' = [calls EXCEPT ![e].result = text, ![e].pc = "returned",
                                    ![e].cwdAfter = back]
    /\ running' = {}
    /\ UNCHANGED <<procs, live, execLog>>
    /\ UNCHANGED <<ambientEnv, taskExecs, runVarsButCwd>>

\* a function command is called: it throws, returns no promise, or is awaited
ExecFnCall(e) ==
    /\ calls[e].pc = "try"
    /\ running = {e}
    /\ calls[e].opts.cmd.kind = "function"
    /\ \/ /\ calls' = [calls EXCEPT ![e].pc = "fn", ![e].fnCalls = @ + 1,
                                    ![e].fnOutcome = "pending"]
          /\ running' = {}
       \/ /\ \E x \in TaskErrors :
                calls' = [calls EXCEPT ![e].pc = "catch", ![e].err = FnError(x),
                                       ![e].fnCalls = @ + 1, ![e].fnOutcome = "threw"]
          /\ UNCHANGED running
       \/ /\ calls' = [calls EXCEPT ![e].pc = "catch", ![e].err = FnTypeError,
                                    ![e].fnCalls = @ + 1, ![e].fnOutcome = "plain"]
          /\ UNCHANGED running
    /\ UNCHANGED <<cwd, procs, live, console, execLog>>
    /\ UNCHANGED <<ambientEnv, taskExecs, runVarsButCwd>>

\* the promise of a function command settles: return '', or go to the catch block
ExecFnSettle(e) ==
    /\ calls[e].pc = "fn"
    /\ running = {}
    /\ \/ /\ LET back == ExecFinallyCwd(calls[e].opts, calls[e].cwdOrginal, cwd) IN
                /\ cwd' = back
                /\ calls' = [calls EXCEPT ![e].result = <<>>, ![e].pc = "returned",
                                          ![e].cwdAfter = back,
                                          ![e].fnOutcome = "resolved"]
          /\ UNCHANGED running
       \/ /\ \E x \in TaskErrors :
                calls' = [calls EXCEPT ![e].pc = "catch", ![e].err = FnError(x),
                                       ![e].fnOutcome = "rejected"]
          /\ running' = {e}
          /\ UNCHANGED cwd
    /\ UNCHANGED <<procs, live, console, execLog>>
    /\ UNCHANGED <<ambientEnv, taskExecs, runVarsButCwd>>

\* the catch block: log unless logError is false, raise the wrapped error, restore
ExecCatch(e) ==
    /\ calls[e].pc = "catch"
    /\ running = {e}
    /\ LET back == ExecFinallyCwd(calls[e].opts, calls[e].cwdOrginal, cwd) IN
          /\ cwd' = back
          /\ calls' = [calls EXCEPT ![e].raised = WrappedError(calls[e].opts, calls[e].err),
                                    ![e].pc = "raised", ![e].cwdAfter = back]
    /\ execLog' = IF LogsError(calls[e].opts.logError)
                  THEN Append(execLog, [call |-> e, err |-> calls[e].err])
                  ELSE execLog
    /\ running' = {}
    /\ UNCHANGED <<procs, live, console>>
    /\ UNCHANGED <<ambientEnv, taskExecs, runVarsButCwd>>

NextExec ==
    \/ \E e \in DOMAIN calls : ExecCall(e)
    \/ \E e \in DOMAIN calls : ExecSpawn(e)
    \/ \E e \in DOMAIN calls : ExecProcExit(e)
    \/ \E e \in DOMAIN calls : ExecReturn(e)
    \/ \E e \in DOMAIN calls : ExecFnCall(e)
    \/ \E e \in DOMAIN calls : ExecFnSettle(e)
    \/ \E e \in DOMAIN calls : ExecCatch(e)

\* ---------------------------------------------------------- specifications
\* run() alone: no exec() call is made
Init == RunInit /\ ExecInit
Spec == Init /\ [][Next]_vars

\* run() with a level on the command line, in the script's options, or both
LogLevelOpts == {None, "warn"}
CliLogValues == {None, "debug", "error"}
CliFlagSets == {{}, {"debug"}, {"warn", "trace"}}
LogBatches == {<<NameAB>>, <<NameZZ>>, <<NameAB, NameAB>>}

RunInitLog ==
    /\ opts \in [dir : {NoDir}, default : {None}, meta : {TRUE}, logLevel : LogLevelOpts]
    /\ cliLog \in CliLogValues
    /\ cliFlags \in CliFlagSets
    /\ cliExtra = {}
    /\ loggers = LoadedLoggers(cliFlags, cliLog)
    /\ objects = <<>>
    /\ userTasks = {KeyAB}
    /\ cliTasks \in LogBatches
    /\ cliHelp = FALSE
    /\ pc = "start"
    /\ tasks = <<>>
    /\ i = 0
    /\ initCwd = <<"unset">>
    /\ cwd = HomeDir
    /\ cwd0 = cwd
    /\ resolved = <<>>
    /\ invoked = <<>>
    /\ taskState = <<>>
    /\ taskErr = <<>>
    /\ runLog = <<>>
    /\ thrown = NoFailure

InitLog == RunInitLog /\ ExecInit
SpecLog == InitLog /\ [][Next]_vars

\* run() with tasks that change the args they are given
ExtraFlags == {{}, {<<"foo", "1">>}}

RunInitArgs ==
    /\ opts = [dir |-> NoDir, default |-> None, meta |-> TRUE, logLevel |-> None]
    /\ cliLog \in {None, "debug"}
    /\ cliFlags = {}
    /\ cliExtra \in ExtraFlags
    /\ loggers = LoadedLoggers(cliFlags, cliLog)
    /\ objects = <<>>
    /\ userTasks = {KeyAB}
    /\ cliTasks \in LogBatches
    /\ cliHelp \in BOOLEAN
    /\ pc = "start"
    /\ tasks = <<>>
    /\ i = 0
    /\ initCwd = <<"unset">>
    /\ cwd = HomeDir
    /\ cwd0 = cwd
    /\ resolved = <<>>
    /\ invoked = <<>>
    /\ taskState = <<>>
    /\ taskErr = <<>>
    /\ runLog = <<>>
    /\ thrown = NoFailure

NextArgs ==
    \/ RunCall
    \/ BatchDone
    \/ TaskNotFound
    \/ TaskInvoke
    \/ TaskChdir
    \/ TaskMutateArgs
    \/ TaskSettle
    \/ TaskResume
    \/ RunFinally

InitArgs == RunInitArgs /\ ExecInit
SpecArgs == InitArgs /\ [][NextArgs]_vars

\* ------------------------------------------------------ loggers, logger.ts
\* a logger that asks its parent before it looks at its own level
RECURSIVE LevelParentFirst(_, _)
LevelParentFirst(ls, l) ==
    IF ls[l].parent # 0 THEN LevelParentFirst(ls, ls[l].parent)
    ELSE IF ls[l].level # NullLevel THEN ls[l].level
    ELSE OFF

\* get level(): this._level ? this._level : this.parent ? this.parent.level : OFF
RECURSIVE Level(_, _)
Level(ls, l) ==
    IF ls[l].level # NullLevel THEN ls[l].level
    ELSE IF ls[l].parent # 0 THEN Level(ls, ls[l].parent)
    ELSE OFF

\* isLevelEnabled(level): this.level <= level
IsLevelEnabled(ls, l, level) == Level(ls, l) <= level

\* isOff(): isLevelEnabled(LogLevel.OFF)
IsOff(ls, l) == IsLevelEnabled(ls, l, OFF)

\* isEnabled(): !this.isOff, where isOff is not called: it is the method
\* itself, a function object, and objects are truthy
IsEnabled(ls, l) == ~TRUE

\* the levels of the logging methods trace() to fatal()
EventLevels == {TRACE, DEBUG, INFO, WARN, ERROR, FATAL}

\* log(level, msg): the event is handed on when isLevelEnabled(level)
Emits(ls, l, level) == IsLevelEnabled(ls, l, level)

\* the level names scripts set
LevelInputs == {"debug", "warn", "off"}

\* parent.getLogger(name): a new logger under p, with no level of its own
GetLogger(p) ==
    /\ Len(loggers) < MaxLoggers
    /\ loggers' = Append(loggers, [parent |-> p, level |-> NullLevel])
    /\ UNCHANGED <<opts, userTasks, cliTasks, cliHelp, pc, tasks, i, initCwd, cwd, cwd0,
                   resolved, invoked, taskState, taskErr, runLog, thrown>>
    /\ UNCHANGED <<cliVars, objects>>
    /\ UNCHANGED <<execVars, taskExecs>>

\* logger.level = name: the setter parses the name and stores it in _level
SetLevel(l, name) ==
    /\ loggers' = [loggers EXCEPT ![l].level = ParseLevel(name)]
    /\ UNCHANGED <<opts, userTasks, cliTasks, cliHelp, pc, tasks, i, initCwd, cwd, cwd0,
                   resolved, invoked, taskState, taskErr, runLog, thrown>>
    /\ UNCHANGED <<cliVars, objects>>
    /\ UNCHANGED <<execVars, taskExecs>>

NextLogger ==
    \/ \E p \in DOMAIN loggers : GetLogger(p)
    \/ \E l \in DOMAIN loggers, name \in LevelInputs : SetLevel(l, name)

\* run() from its call to its end, with every step that can be taken taken in
\* the end: the event loop runs what is ready, and every task that was invoked
\* completes
RunInitLive ==
    /\ opts \in [dir : RunDirs, default : {None}, meta : BOOLEAN, logLevel : {None}]
    /\ CliPlain
    /\ loggers = LoadedLoggers(cliFlags, cliLog)
    /\ objects = <<>>
    /\ userTasks = {KeyAB}
    /\ cliTasks \in LogBatches
    /\ cliHelp = FALSE
    /\ pc = "start"
    /\ tasks = <<>>
    /\ i = 0
    /\ initCwd = <<"unset">>
    /\ cwd = HomeDir
    /\ cwd0 = cwd
    /\ resolved = <<>>
    /\ invoked = <<>>
    /\ taskState = <<>>
    /\ taskErr = <<>>
    /\ runLog = <<>>
    /\ thrown = NoFailure

RunFairness ==
    /\ WF_vars(RunCall)
    /\ WF_vars(BatchDone)
    /\ WF_vars(TaskNotFound)
    /\ WF_vars(TaskInvoke)
    /\ WF_vars(TaskSettle)
    /\ WF_vars(TaskResume)
    /\ WF_vars(RunFinally)

InitLive == RunInitLive /\ ExecInit
SpecLive == InitLive /\ [][Next]_vars /\ RunFairness

\* exec() alone, called from a script in some working directory
RunIdle ==
    /\ opts = [dir |-> NoDir, default |-> None, meta |-> TRUE, logLevel |-> None]
    /\ CliPlain
    /\ loggers = LoadedLoggers(cliFlags, cliLog)
    /\ objects = <<>>
    /\ userTasks = {}
    /\ cliTasks = <<>>
    /\ cliHelp = FALSE
    /\ pc = "outside"
    /\ tasks = <<>>
    /\ i = 0
    /\ initCwd = <<"unset">>
    /\ cwd \in {HomeDir, ProjDir}
    /\ cwd0 = cwd
    /\ resolved = <<>>
    /\ invoked = <<>>
    /\ taskState = <<>>
    /\ taskErr = <<>>
    /\ runLog = <<>>
    /\ thrown = NoFailure

InitExec == RunIdle /\ ExecInit
SpecExec == InitExec /\ [][NextExec]_vars

\* run() with tasks that call exec()
RunInitTasks ==
    /\ opts = [dir |-> NoDir, default |-> None, meta |-> TRUE, logLevel |-> None]
    /\ CliPlain
    /\ loggers = LoadedLoggers(cliFlags, cliLog)
    /\ objects = <<>>
    /\ userTasks = {KeyAB}
    /\ cliTasks \in LogBatches
    /\ cliHelp = FALSE
    /\ pc = "start"
    /\ tasks = <<>>
    /\ i = 0
    /\ initCwd = <<"unset">>
    /\ cwd = HomeDir
    /\ cwd0 = cwd
    /\ resolved = <<>>
    /\ invoked = <<>>
    /\ taskState = <<>>
    /\ taskErr = <<>>
    /\ runLog = <<>>
    /\ thrown = NoFailure

ExecInitTasks ==
    /\ calls = [e \in 1..MaxExecs |-> IdleCall]
    /\ running = {}
    /\ procs = <<>>
    /\ live = {}
    /\ console = <<>>
    /\ execLog = <<>>
    /\ ambientEnv = AmbientEnv
    /\ taskExecs = {}

NextRunExec ==
    \/ RunCall
    \/ BatchDone
    \/ TaskNotFound
    \/ TaskInvoke
    \/ TaskSettle
    \/ TaskResume
    \/ RunFinally
    \/ \E e \in DOMAIN calls : ExecCall(e)
    \/ \E e \in DOMAIN calls : ExecSpawn(e)
    \/ \E e \in DOMAIN calls : ExecProcExit(e)
    \/ \E e \in DOMAIN calls : ExecReturn(e)
    \/ \E e \in DOMAIN calls : ExecFnCall(e)
    \/ \E e \in DOMAIN calls : ExecFnSettle(e)
    \/ \E e \in DOMAIN calls : ExecCatch(e)

InitRunExec == RunInitTasks /\ ExecInitTasks
SpecRunExec == InitRunExec /\ [][NextRunExec]_vars

\* run() with a task that makes two calls of exec()
CallPair == {1, 2}

ExecInitPair ==
    /\ calls = [e \in CallPair |-> IdleCall]
    /\ running = {}
    /\ procs = <<>>
    /\ live = {}
    /\ console = <<>>
    /\ execLog = <<>>
    /\ ambientEnv = AmbientEnv
    /\ taskExecs = {}

InitOverlap == RunInitTasks /\ ExecInitPair
SpecOverlap == InitOverlap /\ [][NextRunExec]_vars

\* a script that builds loggers and sets their levels
InitLogger == RunIdle /\ ExecInit
SpecLogger == InitLogger /\ [][NextLogger]_vars

\* ------------------------------------------------------------------ claims
\* the name with every dash replaced by an underscore
RECURSIVE AllUnderscores(_)
AllUnderscores(s) ==
    IF s = <<>> THEN <<>>
    ELSE <<IF Head(s) = Dash THEN Underscore ELSE Head(s)>> \o AllUnderscores(Tail(s))

HasDash(s) == \E k \in DOMAIN s : s[k] = Dash

\* the positions of the batch whose lookup runTasks has made
Dispatched == DOMAIN resolved

\* the positions whose task was called
InvokedPositions == {invoked[k].pos : k \in DOMAIN invoked}

\* C1: a requested name with dashes is dispatched to the task that the same name
\* with all its dashes replaced by underscores is dispatched to.
C1_DashesResolveAsUnderscores ==
    \A k \in Dispatched :
        HasDash(tasks[k]) =>
            resolved[k] = LookupTask(userTasks, BuiltinKeys, TaskName(AllUnderscores(tasks[k])))

\* C2: the lookup of a normalized name gives the first match of: the exact key among
\* the user tasks, the key task_<name> among the user tasks, the exact key among
\* the builtins; and nothing when none matches.
C2_ResolutionPrecedence ==
    \A k \in Dispatched :
        LET name == TaskName(tasks[k]) IN
        /\ name \in userTasks => resolved[k] = [reg |-> "user", key |-> name]
        /\ (name \notin userTasks /\ (TaskPrefix \o name) \in userTasks)
              => resolved[k] = [reg |-> "user", key |-> TaskPrefix \o name]
        /\ (name \notin userTasks /\ (TaskPrefix \o name) \notin userTasks
                /\ name \in BuiltinKeys)
              => resolved[k] = [reg |-> "builtin", key |-> name]
        /\ (name \notin userTasks /\ (TaskPrefix \o name) \notin userTasks
                /\ name \notin BuiltinKeys)
              => resolved[k] = NoTask

\* a batch where a user task shadows the builtin help task and then the request
\* a-b runs task_a_b, no key a_b being registered
C2_Witness ==
    /\ Len(resolved) = 2
    /\ tasks = <<NameHelp, NameAB>>
    /\ KeyHelp \in userTasks
    /\ KeyAB \notin userTasks
    /\ resolved[1] = [reg |-> "user", key |-> KeyHelp]
    /\ resolved[2] = [reg |-> "user", key |-> KeyTaskAB]
    /\ Len(invoked) = 2

\* the name at position k is in neither registry and runTasks has come to it
UnresolvedAt(k) == k \in Dispatched /\ resolved[k] = NoTask

\* C3: when the k-th name is in neither registry, an error naming it is logged, no
\* task at a position after k is invoked, the tasks before k have completed, and
\* run() does not raise.
C3_UnresolvedHaltsBatch ==
    \A k \in DOMAIN tasks :
        UnresolvedAt(k) =>
            /\ \E n \in DOMAIN runLog : runLog[n] = NotFoundEvent(TaskName(tasks[k]))
            /\ \A p \in InvokedPositions : p < k
            /\ \A j \in 1..(k - 1) : taskState[j] = "resolved"
            /\ thrown = NoFailure
            /\ pc \in {"finally", "done"}

\* the second name of a batch is unresolved after the first task completed, and
\* run() has returned
C3_Witness ==
    /\ Len(tasks) = 2
    /\ UnresolvedAt(2)
    /\ taskState[1] = "resolved"
    /\ pc = "done"

\* the task at position k failed and runTasks has seen the failure
FailedAt(k) ==
    /\ k \in DOMAIN taskState
    /\ taskState[k] \in {"threw", "rejected"}
    /\ ~(pc = "await" /\ i = k)

\* C4: when a task throws or its promise rejects, runTasks logs the task name with
\* the original error, raises a new error naming the task, invokes no later task,
\* and run() raises.
C4_TaskFailureStopsBatch ==
    \A k \in DOMAIN tasks :
        FailedAt(k) =>
            /\ \E n \in DOMAIN runLog :
                  runLog[n] = TaskThrewEvent(TaskName(tasks[k]), taskErr[k])
            /\ thrown = TaskFailure(TaskName(tasks[k]))
            /\ \A p \in InvokedPositions : p <= k
            /\ pc \in {"finally", "failed"}

\* the first task of a batch of two rejected and run() has raised
C4_Witness ==
    /\ Len(tasks) = 2
    /\ taskState[1] = "rejected"
    /\ pc = "failed"
    /\ thrown = TaskFailure(TaskName(tasks[1]))

\* C5: the tasks of a batch are invoked in the order requested, one at a time: a
\* task is invoked only after the promise of the one before has resolved, and no
\* two invoked tasks are in progress together.
C5_TasksRunSequentially ==
    /\ Cardinality({k \in DOMAIN taskState : taskState[k] = "pending"}) <= 1
    /\ \A n \in DOMAIN invoked :
          /\ invoked[n].pos = n
          /\ \A j \in 1..(n - 1) : taskState[j] = "resolved"

\* the second task of a batch is in progress, after the first completed
C5_Witness ==
    /\ Len(invoked) = 2
    /\ taskState[1] = "resolved"
    /\ taskState[2] = "pending"

\* run() has returned or raised
RunCompleted == pc \in {"done", "failed"}

\* C6: once run() has completed, by whatever path, the working directory is the one
\* observed immediately before run() was invoked.
C6_RunRestoresCwd == RunCompleted => cwd = cwd0

\* run() raised for a failed task after changing into the base directory
C6_Witness ==
    /\ pc = "failed"
    /\ thrown.kind = "task-failed"
    /\ opts.dir # NoDir
    /\ cwd = cwd0

\* exec() call e has returned or raised
ExecCompleted(e) == calls[e].pc \in {"returned", "raised"}

\* C7: after an exec() call with a 'dir' override has returned or raised, the
\* working directory is the one observed immediately before the call.
C7_ExecRestoresCwd ==
    \A e \in DOMAIN calls :
        (ExecCompleted(e) /\ calls[e].opts.dir # NoDir) =>
            /\ calls[e].cwdAfter = calls[e].cwdBefore
            /\ (running = {} /\ \A f \in DOMAIN calls : ExecCompleted(f))
                  => cwd = calls[e].cwdBefore

\* a call with a 'dir' override changed directory, a command exited non-zero and
\* the call raised
C7_Witness ==
    \E e \in DOMAIN calls :
        /\ calls[e].pc = "raised"
        /\ calls[e].opts.dir = <<"build">>
        /\ calls[e].fails # <<>>
        /\ calls[e].exit.code # 0
        /\ cwd = calls[e].cwdBefore

\* the indexes of the commands call e has started, in the order of starting
RECURSIVE StartedBy(_, _)
StartedBy(e, ps) ==
    IF ps = <<>> THEN <<>>
    ELSE IF Head(ps).call = e THEN <<Head(ps).idx>> \o StartedBy(e, Tail(ps))
    ELSE StartedBy(e, Tail(ps))

\* C8: the commands of a sequence are started in list order, each after the one
\* before has exited; none is started after the first failing one, and exec()
\* raises rather than returns.
C8_SequenceHaltsAtFirstFailure ==
    \A e \in DOMAIN calls :
        LET started == StartedBy(e, procs) IN
        /\ \A n \in DOMAIN started : started[n] = n
        /\ \A p \in live : procs[p].call = e => procs[p].idx = Len(started)
        /\ calls[e].fails # <<>> =>
              /\ Len(calls[e].fails) = 1
              /\ \A n \in DOMAIN started : started[n] <= calls[e].fails[1]
              /\ calls[e].pc \in {"catch", "raised"}

\* in a sequence of three the second command failed after the first was run, and
\* exec() raised
C8_Witness ==
    \E e \in DOMAIN calls :
        /\ calls[e].opts.cmd.kind = "array"
        /\ Len(calls[e].opts.cmd.list) = 3
        /\ calls[e].fails = <<2>>
        /\ Len(calls[e].out) = 1
        /\ StartedBy(e, procs) = <<1, 2>>
        /\ calls[e].pc = "raised"

\* text holds part as a run of consecutive segments
Contains(text, part) ==
    \E k \in 0..(Len(text) - Len(part)) :
        \A j \in 1..Len(part) : text[k + j] = part[j]

\* C9: when a command exits with a non-zero status, the error exec() raises
\* carries the exit code, the stderr text and the command text.
C9_RaisedErrorCarriesFailure ==
    \A e \in DOMAIN calls :
        (calls[e].pc = "raised" /\ calls[e].exit.code # 0) =>
            /\ Contains(calls[e].raised.message, <<ToString(calls[e].exit.code)>>)
            /\ Contains(calls[e].raised.message, <<calls[e].exit.stderr>>)
            /\ Contains(calls[e].raised.message, CurrentCmd(calls[e]))

\* call e wrote text to the console
Echoed(e, text) == \E n \in DOMAIN console : console[n] = [call |-> e, text |-> text]

\* the outputs of the commands of a call, joined by newlines
CapturedOutput(o) ==
    Join([k \in 1..Len(o.cmd.list) |-> ProcStdout(Argv(o.cmd.list[k]))], <<"\n">>)

\* C10 as stated: the output of a successful string or sequence command is echoed
\* unless 'silent' is explicitly false, and returned unechoed when it is false.
C10_EchoedUnlessSilentFalse ==
    \A e \in DOMAIN calls :
        (calls[e].pc = "returned" /\ calls[e].opts.cmd.kind # "function") =>
            /\ calls[e].opts.silent # "false" => Echoed(e, calls[e].result)
            /\ calls[e].opts.silent = "false" => ~Echoed(e, calls[e].result)
            /\ calls[e].result = CapturedOutput(calls[e].opts)

\* C10 amended: the output of a successful string or sequence command is echoed
\* exactly when 'silent' is explicitly false; when 'silent' is unset or true it is
\* returned without an echo; the returned text is the same in every case.
C10_EchoedOnlyWhenSilentFalse ==
    \A e \in DOMAIN calls :
        (calls[e].pc = "returned" /\ calls[e].opts.cmd.kind # "function") =>
            /\ calls[e].opts.silent = "false" <=> Echoed(e, calls[e].result)
            /\ calls[e].opts.silent # "false" => console = <<>>
            /\ calls[e].result = CapturedOutput(calls[e].opts)

\* a sequence of two commands returned its output with 'silent' unset and wrote
\* nothing to the console
C10_Witness ==
    \E e \in DOMAIN calls :
        /\ calls[e].pc = "returned"
        /\ calls[e].opts.cmd.kind = "array"
        /\ Len(calls[e].opts.cmd.list) = 2
        /\ calls[e].opts.silent = "unset"
        /\ calls[e].result # <<>>
        /\ console = <<>>

\* C11: every subprocess started for a call with an 'env' mapping runs with those
\* variables added to the ambient environment, and the ambient environment of the
\* calling process is unchanged.
C11_EnvAugmentsAmbient ==
    /\ \A p \in DOMAIN procs :
           procs[p].env = AmbientEnv \cup calls[procs[p].call].opts.env
    /\ ambientEnv = AmbientEnv

\* call e was made with a 'dir' that cannot be changed into
DirUnreachable(e) ==
    /\ calls[e].pc # "idle"
    /\ calls[e].opts.dir # NoDir
    /\ ~CanChdir(ResolveDir(calls[e].cwdBefore, calls[e].opts.dir))

\* C12: a call with a 'dir' it cannot change into raises an error naming the
\* directory and the command, starts no subprocess, invokes no function command
\* and leaves the working directory as it was.
C12_DirFailureSkipsExecution ==
    \A e \in DOMAIN calls :
        DirUnreachable(e) =>
            /\ calls[e].pc = "raised"
            /\ Contains(calls[e].raised.message, calls[e].opts.dir)
            /\ Contains(calls[e].raised.message, CmdToString(calls[e].opts.cmd))
            /\ StartedBy(e, procs) = <<>>
            /\ calls[e].fnCalls = 0
            /\ calls[e].cwdAfter = calls[e].cwdBefore
            /\ cwd = calls[e].cwdBefore

\* a sequence of two commands was to run in a directory that does not exist
C12_Witness ==
    \E e \in DOMAIN calls :
        /\ DirUnreachable(e)
        /\ calls[e].opts.cmd = ArrayCmd(<<CmdA, CmdEcho>>)
        /\ calls[e].pc = "raised"
        /\ procs = <<>>

\* C13: a function command is invoked exactly once and awaited; when it completes
\* without failing exec() returns the empty string, and when it fails exec() raises.
C13_FunctionCommandReturnsEmpty ==
    \A e \in DOMAIN calls :
        (calls[e].opts.cmd.kind = "function" /\ ExecCompleted(e) /\ ~DirUnreachable(e)) =>
            /\ calls[e].fnCalls = 1
            /\ calls[e].fnOutcome \in {"resolved", "plain"}
                  => (calls[e].pc = "returned" /\ calls[e].result = <<>>)
            /\ calls[e].fnOutcome \in {"threw", "rejected"} => calls[e].pc = "raised"

\* C17 as stated: exec("echo hello") returns "hello", without the newline.
C17_EchoHelloTrimmed ==
    \A e \in DOMAIN calls :
        (calls[e].pc = "returned" /\ calls[e].opts.cmd = StringCmd(CmdEcho)) =>
            calls[e].result = <<"hello">>

\* C17 amended: exec("echo hello") returns what the process wrote to stdout as it
\* is, "hello" followed by the newline.
C17_EchoHelloWithNewline ==
    \A e \in DOMAIN calls :
        (calls[e].pc = "returned" /\ calls[e].opts.cmd = StringCmd(CmdEcho)) =>
            calls[e].result = <<"hello", "\n">>

\* exec("echo hello") has returned after one process ran echo with hello
C17_Witness ==
    \E e \in DOMAIN calls :
        /\ calls[e].pc = "returned"
        /\ calls[e].opts.cmd = StringCmd(CmdEcho)
        /\ Len(procs) = 1
        /\ procs[1].argv = <<<<"echo">>, <<"hello">>>>
        /\ calls[e].result # <<>>

\* ---------------------------------------------------------------- C14
\* run() has read the command line
RunStarted == pc # "start"

\* C14: the task list of a run is exactly '_help' when --help is given; otherwise
\* the positional names in their order when there is at least one; otherwise
\* the configured default task alone, and '_help' alone when none is configured.
C14_TaskListSelection ==
    RunStarted =>
        /\ cliHelp => tasks = <<NameHelp>>
        /\ (~cliHelp /\ Len(cliTasks) >= 1) => tasks = cliTasks
        /\ (~cliHelp /\ Len(cliTasks) = 0 /\ opts.default # None) => tasks = <<opts.default>>
        /\ (~cliHelp /\ Len(cliTasks) = 0 /\ opts.default = None) => tasks = <<NameHelp>>

\* --help was given together with two task names, and the run went through its
\* list, which held '_help' alone
C14_Witness ==
    /\ cliHelp
    /\ Len(cliTasks) = 2
    /\ pc = "done"
    /\ tasks = <<NameHelp>>
    /\ Len(invoked) = 1

\* ---------------------------------------------------------------- C18
\* C18: the dispatcher only tells success from failure: a task that returns
\* normally, whatever it returns, counts as succeeded and the batch goes on;
\* only a task that throws or whose promise rejects makes run() fail.
C18_OnlyThrowOrRejectionFails ==
    /\ thrown.kind = "task-failed" =>
           \E k \in DOMAIN taskState : taskState[k] \in {"threw", "rejected"}
    /\ \A k \in DOMAIN taskState :
           (taskState[k] \in {"plain", "resolved"} /\ RunCompleted) =>
               (k = Len(tasks) \/ k + 1 \in Dispatched)

\* ---------------------------------------------------------------- C15
\* the levels named on the command line, by --log=<level> or by a level flag
CliLevels ==
    {NameToLevel(f) : f \in cliFlags}
        \cup (IF cliLog = None THEN {} ELSE {NameToLevel(cliLog)})

\* C15: opts.logLevel is only a default: when the command line carries a level,
\* by --log=<level> or by one of --trace, --debug, --info, --warn, --error, the
\* level in force while the tasks run is one from the command line.
C15_CommandLineLevelWins ==
    (CliLevels # {} /\ Len(invoked) >= 1) => RootLevel(loggers) \in CliLevels

\* ---------------------------------------------------------------- C19
\* the flags of the command line, by name, the positional list left out
CommandLineFlags ==
    (IF cliHelp THEN {<<"help", "true">>} ELSE {})
        \cup (IF cliLog # None THEN {<<"log", cliLog>>} ELSE {})
        \cup {<<f, "true">> : f \in cliFlags}
        \cup cliExtra

\* C19: every task invocation gets a context built for it, whose args are the
\* parsed command-line flags without '_'; what one task does to its args at the
\* top level is not seen by the tasks after it.
C19_FreshArgsPerTask ==
    /\ \A n \in DOMAIN invoked : invoked[n].args = CommandLineFlags
    /\ \A n, k \in DOMAIN invoked :
           n # k => ContextArgs(invoked[n].pos) # ContextArgs(invoked[k].pos)
    /\ \A n \in DOMAIN invoked : ContextArgs(invoked[n].pos) # 0

\* the first task changed the args it was given, and a second task was invoked
\* after it
C19_Witness ==
    /\ Len(invoked) = 2
    /\ cliExtra # {}
    /\ objects[ContextArgs(invoked[1].pos)] # CommandLineFlags
    /\ invoked[2].args = CommandLineFlags

\* ---------------------------------------------------------------- C16
\* the logger l, then its parent, and so on up to the root
RECURSIVE Chain(_, _)
Chain(ls, l) == IF l = 0 THEN <<>> ELSE <<l>> \o Chain(ls, ls[l].parent)

\* the nearest of l and its ancestors that has a level of its own decides; with
\* none, the level is OFF
NearestExplicit(ls, l) ==
    LET c == Chain(ls, l)
        explicit == {n \in DOMAIN c : ls[c[n]].level # NullLevel} IN
    IF explicit = {} THEN OFF
    ELSE ls[c[CHOOSE n \in explicit : \A k \in explicit : n <= k]].level

\* c lies on the way from l to the root, and no logger before it on that way has
\* a level of its own: l is c, or a descendant of c that takes its level from c
TakesLevelFrom(ls, l, c) ==
    LET ch == Chain(ls, l) IN
    \E n \in DOMAIN ch :
        /\ ch[n] = c
        /\ \A k \in 1..(n - 1) : ls[ch[k]].level = NullLevel

\* the level of logger c is what this step sets
LevelSetOn(c) ==
    /\ Len(loggers') = Len(loggers)
    /\ loggers'[c].level # loggers[c].level

C16_EffectiveLevels ==
    \A l \in DOMAIN loggers : Level(loggers, l) = NearestExplicit(loggers, l)

C16_SetLevelFrame ==
    \A c, l \in DOMAIN loggers :
        (LevelSetOn(c) /\ ~TakesLevelFrom(loggers, l, c)) =>
            Level(loggers', l) = Level(loggers, l)

\* C16: the effective level of a logger is its own explicit level, else that of
\* the nearest ancestor that has one, else OFF; setting the level of a logger
\* changes the effective level of that logger and of its descendants without a
\* level of their own only, never that of its parent or siblings.
C16_LevelInheritance == [](C16_EffectiveLevels) /\ [][C16_SetLevelFrame]_vars

\* a child of the root has a level of its own that its own child takes over,
\* while a sibling still goes by the root
C16_Witness ==
    \E c, d, sib \in DOMAIN loggers :
        /\ loggers[c].parent = 1 /\ loggers[c].level # NullLevel
        /\ loggers[d].parent = c /\ loggers[d].level = NullLevel
        /\ sib # c /\ loggers[sib].parent = 1 /\ loggers[sib].level = NullLevel
        /\ Level(loggers, d) = loggers[c].level
        /\ Level(loggers, sib) = loggers[1].level
        /\ Level(loggers, sib) # Level(loggers, c)

\* ---------------------------------------------------------------- C20
\* the calls of exec() with a dir override that tasks of this run started
TaskDirExecs == {t \in taskExecs : calls[t.call].opts.dir # NoDir}

\* run() has restored the directory and completed, or is about to
RunLeaving == pc \in {"finally", "done", "failed"}

\* C20 as stated: every exec() call with a dir override that a task started has
\* restored the working directory before run() restores it and completes, and
\* once run() has completed no exec() changes the working directory.
C20_ExecScopeInsideRun ==
    /\ RunLeaving => \A t \in TaskDirExecs : ExecCompleted(t.call)
    /\ RunCompleted => cwd = cwd0

\* C20 amended: every exec() call with a dir override that a task started and
\* awaits before its own promise settles has restored the working directory
\* before run() restores it and completes; when the tasks await all their
\* calls, the working directory stays the pre-run one once run() has completed.
C20_AwaitedExecScopeInsideRun ==
    /\ RunLeaving => \A t \in TaskDirExecs : t.awaited => ExecCompleted(t.call)
    /\ (RunCompleted /\ \A t \in taskExecs : t.awaited) => cwd = cwd0

\* run() has completed after a task awaited an exec() call with a dir override
\* that changed the directory and put it back
C20_Witness ==
    /\ RunCompleted
    /\ \E t \in TaskDirExecs :
          /\ t.awaited
          /\ calls[t.call].pc = "returned"
          /\ calls[t.call].cwdBefore # ResolveDir(calls[t.call].cwdBefore,
                                                  calls[t.call].opts.dir)
          /\ calls[t.call].cwdAfter = calls[t.call].cwdBefore

\* ---------------------------------------------------------------- C21
\* the second call was made while the first was in progress, and both are done
OverlappedAndDone(first, second) ==
    /\ first.call \in second.during
    /\ ExecCompleted(first.call)
    /\ ExecCompleted(second.call)

\* C21: at most one subprocess started by exec() runs at any time, and when two
\* exec() calls with a dir override overlap, the working directory after both
\* have completed is the one observed before the first call.
C21_OverlapKeepsCwd ==
    /\ Cardinality(live) <= 1
    /\ \A first, second \in TaskDirExecs :
           OverlappedAndDone(first, second) => cwd = calls[first.call].cwdBefore

\* ---------------------------------------------------------------- C23
\* a command of the call exited non-zero or could not be started, or its
\* function threw or rejected
CommandFailed(e) ==
    \/ calls[e].fails # <<>>
    \/ calls[e].fnOutcome \in {"threw", "rejected"}

\* the calls of log.error exec() made for the call e
ErrorLogs(e) == {n \in DOMAIN execLog : execLog[n].call = e}

\* C23: when a command or function run through exec() fails, exec() raises; it
\* has logged the failure exactly once by then unless logError is explicitly
\* false, and then it has logged nothing and raises all the same.
C23_FailureLoggedOnceThenRaised ==
    \A e \in DOMAIN calls :
        (CommandFailed(e) /\ ExecCompleted(e)) =>
            /\ calls[e].pc = "raised"
            /\ calls[e].opts.logError = "false" => ErrorLogs(e) = {}
            /\ calls[e].opts.logError # "false" =>
                   /\ Cardinality(ErrorLogs(e)) = 1
                   /\ \A n \in ErrorLogs(e) : execLog[n].err = calls[e].err

\* a command failed in a call that left logError unset: exec() logged it once
\* and raised
C23_Witness ==
    \E e \in DOMAIN calls :
        /\ calls[e].pc = "raised"
        /\ calls[e].fails # <<>>
        /\ calls[e].opts.logError = "unset"
        /\ Cardinality(ErrorLogs(e)) = 1

\* ---------------------------------------------------------------- C24
\* run() has not looked up a task yet
BeforeDispatch == resolved = <<>> /\ invoked = <<>>

\* C24: run() called with a dir but without meta raises before any task is
\* invoked and leaves the working directory as it was; with no dir configured
\* the working directory is not changed before dispatch.
C24_DirNeedsMeta ==
    /\ (RunStarted /\ opts.dir # NoDir /\ ~opts.meta) =>
           /\ pc = "failed"
           /\ thrown = NoMetaFailure
           /\ BeforeDispatch
           /\ cwd = cwd0
    /\ (RunStarted /\ opts.dir = NoDir /\ BeforeDispatch) => cwd = cwd0

\* run() was called with a dir and without meta, and has raised
C24_Witness ==
    /\ opts.dir # NoDir
    /\ ~opts.meta
    /\ pc = "failed"
    /\ thrown = NoMetaFailure
    /\ Len(cliTasks) >= 1

\* ---------------------------------------------------------------- C25
\* C25: for every logger, log(M) emits an event exactly when M is at or above
\* the effective level of the logger, and nothing when that is OFF; isOff() is
\* true exactly when the effective level is OFF; isEnabled() is the negation
\* of isOff().
C25_LevelChecks ==
    \A l \in DOMAIN loggers :
        /\ \A m \in EventLevels :
               Emits(loggers, l, m) <=>
                   (NearestExplicit(loggers, l) # OFF /\ m >= NearestExplicit(loggers, l))
        /\ IsOff(loggers, l) <=> NearestExplicit(loggers, l) = OFF
        /\ IsEnabled(loggers, l) <=> ~IsOff(loggers, l)

\* ---------------------------------------------------------------- C22
\* the phases of a run in their order: Init and Resolving (the call up to the
\* task list), Dispatching, Cleanup, and the terminal states
Phase ==
    CASE pc = "start" -> 1
      [] pc \in {"loop", "await"} -> 2
      [] pc = "finally" -> 3
      [] pc \in {"done", "failed"} -> 4

Dispatching == pc \in {"loop", "await"}

\* a step never goes back to an earlier phase, and leaves Dispatching only for
\* Cleanup
PhasesInOrder ==
    /\ Phase' >= Phase
    /\ Dispatching => (Dispatching' \/ pc' = "finally")

\* no position of the task list is invoked twice
InvokedAtMostOnce ==
    \A n, k \in DOMAIN invoked : invoked[n].pos = invoked[k].pos => n = k

\* a task threw or its promise rejected
TaskRaised == \E k \in DOMAIN taskState : taskState[k] \in {"threw", "rejected"}

\* a run that has ended is Failed exactly when a task raised
EndsFailedIffTaskRaised ==
    RunCompleted => (pc = "failed" <=> TaskRaised)

\* C22: a run goes through Init, Resolving, Dispatching, Cleanup and a terminal
\* state in that order and retries nothing: every requested task is invoked at
\* most once, a run that entered Dispatching performs Cleanup before it ends,
\* and, as every invoked task completes, the run ends in the end, Failed
\* exactly when a task raised and Done otherwise.
C22_RunLifecycle ==
    /\ [][PhasesInOrder]_vars
    /\ [](InvokedAtMostOnce)
    /\ <>RunCompleted
    /\ [](EndsFailedIffTaskRaised)

\* run() was called without meta, or with a dir that cannot be entered
BaseDirUnusable ==
    \/ ~opts.meta
    \/ opts.dir # NoDir /\ ~CanChdir(BaseDir(opts.dir))

\* the invocation of a task failed: the task threw, its promise rejected, or
\* what it returned was no promise
InvocationFailed ==
    \E k \in DOMAIN taskState : taskState[k] \in {"threw", "rejected", "plain"}

EndsFailedIffSomethingRaised ==
    RunCompleted => (pc = "failed" <=> (BaseDirUnusable \/ InvocationFailed))

\* C22 amended: the phases come in their order and nothing is retried, every
\* requested task is invoked at most once, a run that entered Dispatching
\* performs Cleanup before it ends, and, as every invoked task completes, the
\* run ends in the end: Failed exactly when setting the base directory failed
\* (then without Dispatching or Cleanup) or the invocation of a task failed,
\* and Done otherwise.
C22_RunLifecycleAmended ==
    /\ [][PhasesInOrder]_vars
    /\ [](InvokedAtMostOnce)
    /\ <>RunCompleted
    /\ [](EndsFailedIffSomethingRaised)

\* a run of two tasks ended Failed after the second one raised
C22_Witness ==
    /\ pc = "failed"
    /\ Len(invoked) = 2
    /\ taskState[1] = "resolved"
    /\ taskState[2] \in {"threw", "rejected"}
    /\ cwd = cwd0

====
